---- MODULE Spec2Model ----
(***************************************************************************)
(* VoiceTrainer: the short-time spectral noise gate of spectralgate.h.     *)
(*                                                                         *)
(* Scale.  The transform size is scaled from 1024 to 4 so that the real    *)
(* discrete Fourier transform is exact over the integers (its bins are     *)
(* Gaussian integers); the hop is 1 or 2 (overlap factor 4, as in the      *)
(* 1024/256 default, or 2, which keeps C's truncating frame count apart    *)
(* from a floor).                                                          *)
(*                                                                         *)
(* Numbers.  A C float is an integer or NaN.  Float rounding is modelled   *)
(* as truncation toward zero (FDiv, FSqrt).  Fractional parameters are     *)
(* kept in halves: a gain or n_std_thresh of 3 stands for 1.5, GAIN_ONE    *)
(* is 1.0.  The Hann window of length 4 is <<0, 3/4, 3/4, 0>>, kept in     *)
(* quarters.                                                               *)
(***************************************************************************)
EXTENDS Integers, Sequences, FiniteSets, TLC

\* ------------------------------------------------------------------ bounds
\* longest caller buffer (noise or signal), in samples
MaxLen == 5

\* the largest size the recording buffer is grown to, in samples
RecordLimit == 4

\* ------------------------------------------------------- program constants
\* DEFAULT_N_FFT (1024 scaled to 4)
N_FFT == 4
\* SAMPLE_RATE * NOISE_SAMPLE_DURATION, the samples of a noise capture
\* (44100 scaled to 5)
NoiseFrames == 5
\* SAMPLE_RATE * max_time_seconds, the samples the recording buffer holds
\* at first (79380000 scaled to 2)
RecordFrames == 2
\* DEFAULT_WIN_LENGTH (equal to the transform size)
WIN_LENGTH == 4
\* DEFAULT_N_STD_THRESH 1.5f, in halves
DEFAULT_N_STD_THRESH == 3
\* DEFAULT_PROP_DECREASE 1.0f, in halves
DEFAULT_PROP_DECREASE == 2
\* the literal 1.0f of the mask, in halves
GAIN_ONE == 2
\* denominator of the window coefficients
WIN_DEN == 4
\* number of bins of the real transform: n_fft/2 + 1
NBINS == (N_FFT \div 2) + 1

\* ------------------------------------------------------------ float model
\* the float NaN (0.0f/0)
NaN == 0 - 999999

IsNaN(x) == x = NaN

FAdd(a, b) == IF IsNaN(a) \/ IsNaN(b) THEN NaN ELSE a + b

FSub(a, b) == IF IsNaN(a) \/ IsNaN(b) THEN NaN ELSE a - b

FMul(a, b) == IF IsNaN(a) \/ IsNaN(b) THEN NaN ELSE a * b

\* C integer division: truncation toward zero (b > 0)
CDiv(a, b) == IF a >= 0 THEN a \div b ELSE 0 - ((0 - a) \div b)

\* float division; 0/0 is NaN, a quotient is rounded toward zero
FDiv(a, b) ==
    IF IsNaN(a) \/ IsNaN(b) THEN NaN
    ELSE IF b = 0 THEN NaN
    ELSE IF b > 0 THEN CDiv(a, b)
    ELSE CDiv(0 - a, 0 - b)

\* a > b on floats: false when either is NaN
FGt(a, b) == ~IsNaN(a) /\ ~IsNaN(b) /\ a > b

RECURSIVE SqrtFrom(_, _)
\* Newton's iteration down from r to the integer square root of n
SqrtFrom(n, r) ==
    CHOOSE s \in {IF m >= r THEN r ELSE SqrtFrom(n, m) : m \in {(r + n \div r) \div 2}} :
        TRUE

\* sqrtf, rounded down
FSqrt(x) ==
    CHOOSE s \in {IF IsNaN(v) THEN NaN ELSE IF v <= 0 THEN 0 ELSE SqrtFrom(v, v) : v \in {x}} :
        TRUE

\* cabsf of the complex number <<re, im>>
Cabs(z) == FSqrt(z[1] * z[1] + z[2] * z[2])

\* --------------------------------------------------------------- buffers
Bins == 0 .. (NBINS - 1)

Slots == 0 .. (N_FFT - 1)

RECURSIVE StoreUpTo(_, _)
\* the array that holds f[0], ..., f[n-1], element by element
StoreUpTo(f, n) == IF n = 0 THEN <<>> ELSE StoreUpTo(f, n - 1) @@ ((n - 1) :> f[n - 1])

\* an array as stored in memory: every element computed once
Store(f) == StoreUpTo(f, Cardinality(DOMAIN f))

\* what a read of memory the program never wrote may yield
Garbage == {0, 16}

\* a caller's buffer of n samples: a burst of a samples at amplitude 16,
\* then silence
Burst(a, n) == [i \in 0 .. (n - 1) |-> IF i < a THEN 16 ELSE 0]

\* the caller's buffers of every length up to MaxLen: silence, a burst of
\* two or three samples, a tone that fills the buffer
Buffers == {Store(Burst(a, n)) : a \in {0, 2, 3, MaxLen}, n \in 0 .. MaxLen}

\* the signals to process: those, and one longer tone, long enough for a
\* sample to lie under frameSize/hopSize frames at hop 1
Signals == Buffers \cup {Store(Burst(MaxLen + 2, MaxLen + 2))}

BufLen(b) == Cardinality(DOMAIN b)

\* the threshold array taken from malloc instead of calloc: old heap data
ZeroBins_Uninitialised == Store([k \in Bins |-> 16])

\* calloc(n_fft/2 + 1, sizeof(float)): an array of zeros, one per bin
ZeroBins == Store([k \in Bins |-> 0])

\* create_hann_window(4): 0.5 * (1 - cos(2 pi i / 3)), in quarters
create_hann_window == [i \in 0 .. (WIN_LENGTH - 1) |-> IF i = 0 \/ i = WIN_LENGTH - 1 THEN 0 ELSE 3]

VARIABLES
    hop_length,      \* sg->hop_length
    n_std_thresh,    \* sg->n_std_thresh, in halves
    prop_decrease,   \* sg->prop_decrease, in halves
    clip_noise,      \* sg->clip_noise
    window,          \* sg->window
    input_buffer,    \* sg->input_buffer  (time-domain scratch)
    fft_buffer,      \* sg->fft_buffer    (frequency-domain scratch)
    noise_thresh,    \* sg->noise_thresh
    learned,         \* the threshold the most recent learning stored
    op,              \* the engine operation that ran last
    data,            \* the buffer the caller passed to it
    output,          \* the output buffer the caller passed to it (none: <<>>)
    call,            \* what the last operation did (history of the call)
    learner,         \* a thread inside spectralgate_compute_noise_thresh
    processor,       \* a thread inside spectralgate_process
    profile,         \* the noise-profile file and main's calls that use it
    app              \* voice.c: main, its handles, the streams and their callbacks

vars == <<hop_length, n_std_thresh, prop_decrease, clip_noise, window,
          input_buffer, fft_buffer, noise_thresh, learned, op, data, output, call,
          learner, processor, profile, app>>

\* the two threads of the concurrent runs
threads == <<learner, processor>>

\* --------------------------------------------------------- frame pipeline
\* int num_frames = 1 + (length - sg->n_fft) / sg->hop_length;
NumFrames(len, hop) == 1 + CDiv(len - N_FFT, hop)

\* one float read of a caller's buffer: past its end the value is garbage
ReadSample(buf, idx, g) == IF idx \in DOMAIN buf THEN buf[idx] ELSE g

\* the indices memcpy reads for the frame that starts at `start`
FrameReads(start) == {start + i : i \in 0 .. (WIN_LENGTH - 1)}

\* memset(sg->input_buffer, 0, sg->n_fft * sizeof(float))
Memset(ib) == [i \in DOMAIN ib |-> IF i < N_FFT THEN 0 ELSE ib[i]]

\* memcpy(sg->input_buffer, data + start, sg->win_length * sizeof(float))
Memcpy(ib, buf, start, g) ==
    [i \in DOMAIN ib |-> IF i < WIN_LENGTH THEN ReadSample(buf, start + i, g) ELSE ib[i]]

\* no memset, and half a window copied: the rest of the scratch buffer stays
LoadFrame_StaleTail(ib, buf, start, g) ==
    [i \in DOMAIN ib |->
        IF i < WIN_LENGTH \div 2 THEN ReadSample(buf, start + i, g) ELSE ib[i]]

\* the scratch buffer ib after the memset and the memcpy of one frame
LoadFrame(ib, buf, start, g) == Memcpy(Memset(ib), buf, start, g)

\* apply_window(buffer, window, size)
apply_window(buffer, win, size) ==
    [i \in Slots |-> IF i < size THEN FDiv(buffer[i] * win[i], WIN_DEN) ELSE buffer[i]]

\* fftwf_execute(forward_plan): real-to-complex transform of 4 samples
Forward(x) ==
    [k \in Bins |->
        CASE k = 0 -> <<x[0] + x[1] + x[2] + x[3], 0>>
          [] k = 1 -> <<x[0] - x[2], x[3] - x[1]>>
          [] k = 2 -> <<x[0] - x[1] + x[2] - x[3], 0>>]

\* fftwf_execute(inverse_plan): unnormalised complex-to-real transform
Inverse(X) ==
    [n \in Slots |->
        CASE n = 0 -> X[0][1] + 2 * X[1][1] + X[2][1]
          [] n = 1 -> X[0][1] - 2 * X[1][2] - X[2][1]
          [] n = 2 -> X[0][1] - 2 * X[1][1] + X[2][1]
          [] n = 3 -> X[0][1] + 2 * X[1][2] - X[2][1]]

\* the frame at `start`, copied, zero-padded, windowed and transformed
Spectrum(ib, buf, start, win, g) ==
    Store(Forward(Store(apply_window(LoadFrame(ib, buf, start, g), win, WIN_LENGTH))))

\* the comparison written >= instead of >
Mask_AtOrAbove(mag, thr, prop, clip) ==
    LET mask == IF FGt(mag, thr) \/ mag = thr THEN GAIN_ONE ELSE prop
    IN  IF clip /\ mask < GAIN_ONE THEN 0 ELSE mask

\* float mask = (mag > noise_thresh[i]) ? 1.0f : prop_decrease;
\* if (clip_noise && mask < 1.0f) mask = 0.0f;
Mask(mag, thr, prop, clip) ==
    LET mask == IF FGt(mag, thr) THEN GAIN_ONE ELSE prop
    IN  IF clip /\ mask < GAIN_ONE THEN 0 ELSE mask

\* fft_buffer[i] = (mag * mask) * (cosf(phase) + I * sinf(phase)),
\* with mag * cos(phase) = re and mag * sin(phase) = im
GateBin(z, mask) == <<FDiv(z[1] * mask, GAIN_ONE), FDiv(z[2] * mask, GAIN_ONE)>>

GateRecord(z, mag, thr, mask) ==
    [mag |-> mag, thr |-> thr, mask |-> mask, zin |-> z, zout |-> GateBin(z, mask)]

\* the gating of one bin: its magnitude, the threshold it met, the mask
\* applied and the bin before and after
Gate(z, thr, prop, clip) == GateRecord(z, Cabs(z), thr, Mask(Cabs(z), thr, prop, clip))

\* the gating loop over the bins of one frame
GateFrame(X, thr, prop, clip) == Store([k \in Bins |-> Gate(X[k], thr[k], prop, clip)])

\* the inverse transform of the gated bins, windowed again
Reconstruct(G, win) ==
    Store(apply_window(Inverse(Store([k \in Bins |-> G[k].zout])), win, WIN_LENGTH))

\* the bounds check left out
InBounds_Unchecked(idx, input_size) == TRUE

\* the bounds check off by one: frame_start + i < input_size - 1
InBounds_OffByOne(idx, input_size) == idx < input_size - 1

\* if (frame_start + i < input_size)
InBounds(idx, input_size) == idx < input_size

\* the overlap factor alone, without the division by 2
Normalization_OverlapOnly(hop) == N_FFT \div hop

\* float normalization = (float)n_fft / (float)hop_length / 2.0f;
Normalization(hop) == (N_FFT \div hop) \div 2

\* the frame loop storing the magnitudes it saw into sg->noise_thresh
Accumulate_AdaptsThreshold(st, frame, frame_start, G, recon, input_size) ==
    [st EXCEPT !.thresh = Store([k \in Bins |-> G[k].mag]),
               !.forwards = st.forwards + 1,
               !.inverses = st.inverses + 1]

\* the output indices a frame adds to: frame_start + i, for every i the
\* bounds check lets through
AddedIndices(frame_start, input_size) ==
    {frame_start + i : i \in {s \in Slots : InBounds(frame_start + s, input_size)}}

\* output[idx] += input_buffer[idx - frame_start] / n_fft, for idx in idxs
AccumulateAt(st, frame, frame_start, G, recon, idxs) ==
    [out |-> Store([j \in DOMAIN st.out |->
                    IF j \in idxs
                    THEN st.out[j] + FDiv(recon[j - frame_start], N_FFT)
                    ELSE st.out[j]]),
     ib |-> recon,
     fb |-> Store([k \in Bins |-> G[k].zout]),
     thresh |-> st.thresh,
     reads |-> st.reads \cup FrameReads(frame_start),
     writes |-> st.writes \cup idxs,
     gates |-> st.gates \cup
               {[frame |-> frame, bin |-> k, mag |-> G[k].mag, thr |-> G[k].thr,
                 mask |-> G[k].mask, zin |-> G[k].zin, zout |-> G[k].zout] : k \in Bins},
     adds |-> st.adds \cup {<<frame, idx>> : idx \in idxs},
     nadds |-> st.nadds + Cardinality(idxs),
     forwards |-> st.forwards + 1,
     inverses |-> st.inverses + 1,
     divisors |-> st.divisors \cup (IF idxs # {} THEN {N_FFT} ELSE {})]

\* for (i = 0; i < n_fft; i++) if (frame_start + i < input_size)
\*     output[frame_start + i] += input_buffer[i] / n_fft;
Accumulate(st, frame, frame_start, G, recon, input_size) ==
    AccumulateAt(st, frame, frame_start, G, recon, AddedIndices(frame_start, input_size))

GateAndAccumulate(st, frame, frame_start, G, win, input_size) ==
    Accumulate(st, frame, frame_start, G, Reconstruct(G, win), input_size)

\* one iteration of the frame loop of spectralgate_process
ProcessFrame(st, buf, frame, hop, prop, clip, win, input_size, g) ==
    GateAndAccumulate(st, frame, frame * hop,
                      GateFrame(Spectrum(st.ib, buf, frame * hop, win, g), st.thresh, prop, clip),
                      win, input_size)

RECURSIVE ProcessFrames(_, _, _, _, _, _, _, _, _, _)
\* for (int frame = 0; frame < num_frames; frame++) { ... }
ProcessFrames(st, buf, frame, num_frames, hop, prop, clip, win, input_size, g) ==
    IF frame < num_frames
    THEN ProcessFrames(ProcessFrame(st, buf, frame, hop, prop, clip, win, input_size, g),
                       buf, frame + 1, num_frames, hop, prop, clip, win, input_size, g)
    ELSE st

\* memset(output, 0, input_size): the size given in bytes, not in floats
ZeroOutput_Bytes(out) ==
    Store([j \in DOMAIN out |-> IF j < BufLen(out) \div 4 THEN 0 ELSE out[j]])

\* the memset left out
ZeroOutput_Skipped(out) == out

\* memset(output, 0, input_size * sizeof(float));
ZeroOutput(out) == Store([j \in DOMAIN out |-> 0])

\* for (i = 0; i < input_size; i++) output[i] /= normalization;
Normalize(st, input_size, hop) ==
    [st EXCEPT !.out = Store([j \in DOMAIN st.out |-> FDiv(st.out[j], Normalization(hop))]),
               !.divisors = st.divisors \cup
                            (IF input_size > 0 THEN {Normalization(hop)} ELSE {})]

\* spectralgate_process(sg, input, output, input_size), from the scratch
\* buffers ib, fb it finds and the output buffer `out` the caller hands in
spectralgate_process(buf, out, ib, fb, hop, thr, prop, clip, win, g) ==
    Normalize(ProcessFrames([out |-> ZeroOutput(out), ib |-> ib, fb |-> fb, thresh |-> thr,
                             reads |-> {}, writes |-> DOMAIN out, gates |-> {},
                             adds |-> {}, nadds |-> 0,
                             forwards |-> 0, inverses |-> 0, divisors |-> {}],
                            buf, 0, NumFrames(BufLen(buf), hop), hop, prop, clip, win,
                            BufLen(buf), g),
              BufLen(buf), hop)

\* mean[i] += mag; sq_mean[i] += mag * mag;
AccumulateStats(st, frame_start, X) ==
    [mean |-> Store([k \in Bins |-> FAdd(st.mean[k], Cabs(X[k]))]),
     sq_mean |-> Store([k \in Bins |-> FAdd(st.sq_mean[k], FMul(Cabs(X[k]), Cabs(X[k])))]),
     ib |-> st.ib,
     fb |-> X,
     reads |-> st.reads \cup FrameReads(frame_start),
     forwards |-> st.forwards + 1]

\* one iteration of the frame loop of spectralgate_compute_noise_thresh
LearnFrame(st, buf, frame, hop, win, g) ==
    [AccumulateStats(st, frame * hop, Spectrum(st.ib, buf, frame * hop, win, g))
        EXCEPT !.ib = Store(apply_window(LoadFrame(st.ib, buf, frame * hop, g), win,
                                         WIN_LENGTH))]

RECURSIVE LearnFrames(_, _, _, _, _, _, _)
\* for (int frame = 0; frame < num_frames; frame++) { ... }
LearnFrames(st, buf, frame, num_frames, hop, win, g) ==
    IF frame < num_frames
    THEN LearnFrames(LearnFrame(st, buf, frame, hop, win, g),
                     buf, frame + 1, num_frames, hop, win, g)
    ELSE st

\* std = sqrtf(var > 0 ? var : 0); noise_thresh[i] = mean + n_std_thresh * std
ThresholdOf(mean, sq_mean, n_std) ==
    CHOOSE t \in {FAdd(m, FDiv(FMul(n_std, FSqrt(IF FGt(var, 0) THEN var ELSE 0)), GAIN_ONE)) :
                     m \in {mean}, var \in {FSub(sq_mean, FMul(mean, mean))}} :
        TRUE

\* mean[i] /= num_frames; sq_mean[i] /= num_frames; ...
Threshold(sum, sq_sum, num_frames, n_std) ==
    ThresholdOf(FDiv(sum, num_frames), FDiv(sq_sum, num_frames), n_std)

\* the loop that fills sg->noise_thresh once the frames are read
Finish(st, num_frames, n_std) ==
    [thresh |-> Store([k \in Bins |->
                    Threshold(st.mean[k], st.sq_mean[k], num_frames, n_std)]),
     ib |-> st.ib, fb |-> st.fb, reads |-> st.reads, forwards |-> st.forwards,
     divisors |-> {num_frames}]

\* noise_thresh[i] += ... instead of noise_thresh[i] = ...
spectralgate_compute_noise_thresh_Adding(buf, ib, fb, old_thresh, hop, n_std, win, g) ==
    [Finish(LearnFrames([mean |-> ZeroBins, sq_mean |-> ZeroBins, ib |-> ib, fb |-> fb,
                         reads |-> {}, forwards |-> 0],
                        buf, 0, NumFrames(BufLen(buf), hop), hop, win, g),
            NumFrames(BufLen(buf), hop), n_std)
        EXCEPT !.thresh = Store([k \in Bins |-> FAdd(old_thresh[k], @[k])])]

\* spectralgate_compute_noise_thresh(sg, noise_data, noise_length), from the
\* scratch buffers ib, fb and the threshold old_thresh it finds
spectralgate_compute_noise_thresh(buf, ib, fb, old_thresh, hop, n_std, win, g) ==
    Finish(LearnFrames([mean |-> ZeroBins, sq_mean |-> ZeroBins, ib |-> ib, fb |-> fb,
                        reads |-> {}, forwards |-> 0],
                       buf, 0, NumFrames(BufLen(buf), hop), hop, win, g),
           NumFrames(BufLen(buf), hop), n_std)

\* --------------------------------------------------------------- actions
\* whether a call on a buffer of this length reads past its end
ReadsPastEnd(len, hop) ==
    \E f \in 0 .. (NumFrames(len, hop) - 1) : f * hop + WIN_LENGTH > len

\* the values the reads past the end of `buf` may yield
GarbageFor(buf, hop) == IF ReadsPastEnd(BufLen(buf), hop) THEN Garbage ELSE {0}

\* the output buffers a caller hands in: cleared, or holding old data
Prefills(n) == {Store([j \in 0 .. (n - 1) |-> d]) : d \in {7}}

\* the history of a call: the transforms it ran, the indices of the caller's
\* buffers it read and wrote, its gating decisions, the divisors it divided
\* by, whether it reported an error (both operations return void), the
\* threshold, configuration, window and output buffer it found, and whether
\* no profile was learned since spectralgate_create; the <<frame, index>>
\* pairs of the additions into the output and their number; which of its
\* allocations failed, whether it wrote through the null pointer it got, and
\* whether it handed a null engine back
NoCall == [forwards |-> 0, inverses |-> 0, reads |-> {}, writes |-> {}, gates |-> {},
           divisors |-> {}, reported_error |-> FALSE, prev_thresh |-> ZeroBins,
           prev_config |-> <<>>, prev_window |-> <<>>, out_before |-> <<>>, garbage |-> 0,
           never_learned |-> TRUE, adds |-> {}, nadds |-> 0,
           alloc_failed |-> "none", null_deref |-> FALSE, returned_null |-> FALSE,
           dirty |-> FALSE]

\* the scratch buffers hold something other than zeros
Dirty(ib, fb) == (\E i \in DOMAIN ib : ib[i] # 0) \/ (\E k \in DOMAIN fb : fb[k] # <<0, 0>>)

\* a null pointer, where a buffer should be
Null == <<>>

\* the allocations of spectralgate_create: the engine (calloc, line 51), the
\* window (malloc in create_hann_window, line 43), the scratch buffers and
\* the threshold (lines 66-70)
CreateAllocs == {"sg", "window", "scratch"}

\* the allocations of spectralgate_compute_noise_thresh: mean and sq_mean
LearnAllocs == {"mean"}

\* the engine is there, and so are its buffers
Usable == op \in {"create", "set", "learn", "process"} /\ input_buffer # Null

\* the configuration fields of the engine
Config == <<hop_length, n_std_thresh, prop_decrease, clip_noise>>

\* spectralgate_create when one of its allocations fails.  No result of
\* calloc, malloc or fftwf_malloc is checked.  A failed calloc of the engine
\* is written through at once (sg->n_fft = ...), and so is a failed malloc of
\* the window (window[i] = ...): the process dies.  Failed scratch buffers are
\* only stored: the engine is returned, non-null, with null buffers in it.
CreateFails ==
    /\ hop_length = 1
    /\ n_std_thresh = DEFAULT_N_STD_THRESH
    /\ prop_decrease = DEFAULT_PROP_DECREASE
    /\ clip_noise = TRUE
    /\ input_buffer = Null
    /\ fft_buffer = Null
    /\ noise_thresh = Null
    /\ learned = Null
    /\ data = <<>>
    /\ output = <<>>
    /\ \E a \in CreateAllocs :
          /\ window = IF a = "scratch" THEN Store(create_hann_window) ELSE Null
          /\ op = IF a = "scratch" THEN "create" ELSE "crash"
          /\ call = [NoCall EXCEPT !.alloc_failed = a, !.null_deref = (a # "scratch")]

\* spectralgate_create: the defaults, a zeroed threshold, scratch buffers
\* that were never written; the configuration fields are public and the
\* caller may hold any of these values in them
Created ==
    /\ hop_length \in {1, 2}
    /\ n_std_thresh = DEFAULT_N_STD_THRESH
    /\ prop_decrease \in {1, DEFAULT_PROP_DECREASE, 3}
    /\ clip_noise \in BOOLEAN
    /\ window = Store(create_hann_window)
    /\ \E s \in Garbage :
          /\ input_buffer = Store([i \in Slots |-> s])
          /\ fft_buffer = Store([k \in Bins |-> <<s, s>>])
    /\ noise_thresh = ZeroBins
    /\ learned = ZeroBins
    /\ op = "create"
    /\ data = <<>>
    /\ output = <<>>
    /\ call = NoCall

\* no thread is inside the engine: the calls below run one after another
Idle == [pc |-> "idle"]

\* the application is outside these runs
NoApp == [pc |-> "none"]

\* main before the profile is looked for (voice.c:417-419): noise_data =
\* NULL, noise_frames = 0; no profile file in the directory
NoProfile ==
    [pc |-> "start", captured |-> <<>>, exists |-> FALSE, bytes |-> <<>>, wrote |-> <<>>,
     written |-> "none", save_ret |-> "none", load_ret |-> "none", load_at |-> "none",
     frames |-> 0, noise_data |-> <<>>]

Init ==
    /\ Created \/ CreateFails
    /\ learner = Idle
    /\ processor = Idle
    /\ profile = NoProfile
    /\ app = NoApp

\* the caller finds the engine non-null and goes on (voice.c:536-543): the
\* first operation writes through the null scratch buffer (memset, line 108
\* or 147)
UseNullBuffers ==
    /\ op = "create" /\ input_buffer = Null
    /\ op' = "crash"
    /\ call' = [call EXCEPT !.null_deref = TRUE]
    /\ UNCHANGED <<hop_length, n_std_thresh, prop_decrease, clip_noise, window,
                   input_buffer, fft_buffer, noise_thresh, learned, data, output>>
    /\ UNCHANGED <<threads, profile, app>>

\* spectralgate_compute_noise_thresh when calloc of mean or sq_mean fails:
\* the result is not checked, and mean[i] += mag (line 119) or
\* mean[i] /= num_frames (line 126) writes through the null pointer
LearnAllocFails ==
    /\ Usable
    /\ op' = "crash"
    /\ data' = <<>>
    /\ output' = <<>>
    /\ call' = [NoCall EXCEPT !.alloc_failed = "mean", !.null_deref = TRUE,
                              !.never_learned = call.never_learned]
    /\ UNCHANGED <<hop_length, n_std_thresh, prop_decrease, clip_noise, window,
                   input_buffer, fft_buffer, noise_thresh, learned>>
    /\ UNCHANGED <<threads, profile, app>>

\* voice.c main: sg->prop_decrease = 0.0; sg->n_std_thresh = 2.5;
SetParams ==
    /\ op = "create" /\ Usable
    /\ prop_decrease' = 0
    /\ n_std_thresh' = 5
    /\ op' = "set"
    /\ UNCHANGED <<hop_length, clip_noise, window, input_buffer, fft_buffer,
                   noise_thresh, learned, data, output, call>>
    /\ UNCHANGED <<threads, profile, app>>

\* a call of spectralgate_compute_noise_thresh on any noise buffer
Learn ==
    /\ Usable
    /\ \E buf \in Buffers : \E g \in GarbageFor(buf, hop_length) :
       \E r \in {spectralgate_compute_noise_thresh(buf, input_buffer, fft_buffer,
                  noise_thresh, hop_length, n_std_thresh, window, g)} :
        /\ noise_thresh' = r.thresh
        /\ learned' = r.thresh
        /\ input_buffer' = r.ib
        /\ fft_buffer' = r.fb
        /\ op' = "learn"
        /\ data' = buf
        /\ output' = <<>>
        /\ call' = [NoCall EXCEPT !.forwards = r.forwards, !.reads = r.reads,
                                  !.divisors = r.divisors,
                                  !.prev_thresh = noise_thresh, !.prev_config = Config,
                                  !.prev_window = window, !.garbage = g,
                                  !.never_learned = FALSE]
        /\ UNCHANGED <<hop_length, n_std_thresh, prop_decrease, clip_noise, window>>
        /\ UNCHANGED <<threads, profile, app>>

\* a call of spectralgate_process on any signal buffer and output buffer
Process ==
    /\ Usable
    /\ \E buf \in Signals : \E g \in GarbageFor(buf, hop_length) :
       \E pre \in Prefills(BufLen(buf)) :
       \E r \in {spectralgate_process(buf, pre, input_buffer, fft_buffer, hop_length,
                  noise_thresh, prop_decrease, clip_noise, window, g)} :
        /\ output' = r.out
        /\ noise_thresh' = r.thresh
        /\ input_buffer' = r.ib
        /\ fft_buffer' = r.fb
        /\ op' = "process"
        /\ data' = buf
        /\ call' = [NoCall EXCEPT !.forwards = r.forwards, !.inverses = r.inverses,
                                  !.reads = r.reads, !.writes = r.writes,
                                  !.gates = r.gates, !.divisors = r.divisors,
                                  !.prev_thresh = noise_thresh, !.prev_config = Config,
                                  !.prev_window = window,
                                  !.out_before = pre, !.garbage = g,
                                  !.never_learned = call.never_learned,
                                  !.adds = r.adds, !.nadds = r.nadds,
                                  !.dirty = Dirty(input_buffer, fft_buffer)]
        /\ UNCHANGED <<hop_length, n_std_thresh, prop_decrease, clip_noise,
                       window, learned>>
        /\ UNCHANGED <<threads, profile, app>>

Next == SetParams \/ Learn \/ Process \/ UseNullBuffers \/ LearnAllocFails

Spec == Init /\ [][Next]_vars

\* ------------------------------------------------- two threads, one engine
\* One thread calls spectralgate_compute_noise_thresh and another calls
\* spectralgate_process on the same engine.  A step is one statement group of
\* the source: the frame copy, a transform, the statistics or the gating
\* loop, the accumulation, the closing loop.

\* the noise buffers and the signal buffers of the concurrent runs
NoiseBuffers == {Store(Burst(2, n)) : n \in 0 .. MaxLen}

SignalBuffers == {Store(Burst(MaxLen, n)) : n \in 0 .. MaxLen}

\* the buffers of one concurrent run: every length for either call, at most
\* one of the two calls running over more than a single frame of samples
BufferPairs ==
    {p \in NoiseBuffers \X SignalBuffers : BufLen(p[1]) <= N_FFT \/ BufLen(p[2]) <= N_FFT}

\* the output buffer the caller of spectralgate_process hands in
Prefill(n) == Store([j \in 0 .. (n - 1) |-> 7])

\* the engine holds no mutex and neither operation takes one: a thread that
\* enters an operation never waits for the thread that is inside the other
Waits_ForMutex(mine, other) == mine.pc = "call" /\ other.pc \notin {"call", "done"}

Waits_Forever(mine, other) == mine.pc = "call" /\ other.pc # "call"

Waits(mine, other) == FALSE

\* for (int frame = 0; frame < num_frames; ...): the body, or the exit
LoopPc(frame, num_frames, body, exit) == IF frame < num_frames THEN body ELSE exit

NextFrame_SkipsOne(frame) == frame + 2

\* frame++
NextFrame(frame) == frame + 1

\* the statements a thread has executed so far, each with its frame, in the
\* order of execution
Logged(log, frame, steps) == log \o [i \in 1 .. Len(steps) |-> <<steps[i], frame>>]

\* memset, memcpy and apply_window of one frame
WindowedFrame(ib, buf, frame, hop, win, g) ==
    Store(apply_window(LoadFrame(ib, buf, frame * hop, g), win, WIN_LENGTH))

\* spectralgate_create and the caller's parameters (voice.c:540-541), the
\* scratch buffers clean; each thread about to make its call
InitConc ==
    /\ hop_length \in {1, 2}
    /\ n_std_thresh = 5
    /\ prop_decrease = 0
    /\ clip_noise = TRUE
    /\ window = Store(create_hann_window)
    /\ input_buffer = Store([i \in Slots |-> 0])
    /\ fft_buffer = Store([k \in Bins |-> <<0, 0>>])
    /\ noise_thresh = ZeroBins
    /\ learned = ZeroBins
    /\ op = "concurrent"
    /\ profile = NoProfile
    /\ app = NoApp
    /\ data = <<>>
    /\ call = NoCall
    /\ \E p \in BufferPairs :
          /\ \E g \in GarbageFor(p[1], hop_length) :
                learner = [pc |-> "call", buf |-> p[1], g |-> g, frame |-> 0, loops |-> 0,
                           num_frames |-> 0, mean |-> ZeroBins, sq_mean |-> ZeroBins,
                           log |-> <<>>]
          /\ \E g \in GarbageFor(p[2], hop_length) :
                processor = [pc |-> "call", buf |-> p[2], g |-> g, frame |-> 0,
                             loops |-> 0, num_frames |-> 0, copied |-> <<>>,
                             clobbered |-> FALSE, log |-> <<>>]
          /\ output = Prefill(BufLen(p[2]))

\* int num_frames = ...; mean = calloc(...); sq_mean = calloc(...);
L_enter ==
    /\ learner.pc = "call" /\ ~Waits(learner, processor)
    /\ learner' = [learner EXCEPT
                      !.num_frames = NumFrames(BufLen(learner.buf), hop_length),
                      !.pc = LoopPc(0, NumFrames(BufLen(learner.buf), hop_length),
                                    "copy", "finish")]
    /\ UNCHANGED <<profile, app>>
    /\ UNCHANGED <<hop_length, n_std_thresh, prop_decrease, clip_noise, window,
                   input_buffer, fft_buffer, noise_thresh, learned, op, data, output,
                   call, processor>>

\* memset, memcpy, apply_window on sg->input_buffer
L_copy ==
    /\ learner.pc = "copy"
    /\ input_buffer' = WindowedFrame(input_buffer, learner.buf, learner.frame,
                                     hop_length, window, learner.g)
    /\ learner' = [learner EXCEPT
                      !.pc = "fft",
                      !.log = Logged(@, learner.frame, <<"copy", "window">>)]
    /\ UNCHANGED <<profile, app>>
    /\ UNCHANGED <<hop_length, n_std_thresh, prop_decrease, clip_noise, window,
                   fft_buffer, noise_thresh, learned, op, data, output, call, processor>>

\* fftwf_execute(sg->forward_plan)
L_fft ==
    /\ learner.pc = "fft"
    /\ fft_buffer' = Store(Forward(input_buffer))
    /\ learner' = [learner EXCEPT
                      !.pc = "stats",
                      !.log = Logged(@, learner.frame, <<"forward">>)]
    /\ UNCHANGED <<profile, app>>
    /\ UNCHANGED <<hop_length, n_std_thresh, prop_decrease, clip_noise, window,
                   input_buffer, noise_thresh, learned, op, data, output, call, processor>>

\* mean[i] += mag; sq_mean[i] += mag * mag; then frame++ and the loop test
L_stats ==
    /\ learner.pc = "stats"
    /\ learner' = [learner EXCEPT
                      !.mean = Store([k \in Bins |-> FAdd(@[k], Cabs(fft_buffer[k]))]),
                      !.sq_mean = Store([k \in Bins |->
                                     FAdd(@[k], FMul(Cabs(fft_buffer[k]), Cabs(fft_buffer[k])))]),
                      !.log = Logged(@, learner.frame, <<"stats">>),
                      !.frame = NextFrame(@),
                      !.loops = @ + 1,
                      !.pc = LoopPc(NextFrame(learner.frame), learner.num_frames,
                                    "copy", "finish")]
    /\ UNCHANGED <<profile, app>>
    /\ UNCHANGED <<hop_length, n_std_thresh, prop_decrease, clip_noise, window,
                   input_buffer, fft_buffer, noise_thresh, learned, op, data, output,
                   call, processor>>

\* the threshold loop, free(mean), free(sq_mean), return
L_finish ==
    /\ learner.pc = "finish"
    /\ \E t \in {Store([k \in Bins |-> Threshold(learner.mean[k], learner.sq_mean[k],
                                                 learner.num_frames, n_std_thresh)])} :
          noise_thresh' = t /\ learned' = t
    /\ learner' = [learner EXCEPT !.pc = "done"]
    /\ UNCHANGED <<profile, app>>
    /\ UNCHANGED <<hop_length, n_std_thresh, prop_decrease, clip_noise, window,
                   input_buffer, fft_buffer, op, data, output, call, processor>>

\* int num_frames = ...; memset(output, 0, ...);
P_enter ==
    /\ processor.pc = "call" /\ ~Waits(processor, learner)
    /\ output' = ZeroOutput(output)
    /\ processor' = [processor EXCEPT
                        !.num_frames = NumFrames(BufLen(processor.buf), hop_length),
                        !.pc = LoopPc(0, NumFrames(BufLen(processor.buf), hop_length),
                                      "copy", "normalize")]
    /\ UNCHANGED <<profile, app>>
    /\ UNCHANGED <<hop_length, n_std_thresh, prop_decrease, clip_noise, window,
                   input_buffer, fft_buffer, noise_thresh, learned, op, data, call,
                   learner>>

\* memset, memcpy, apply_window on sg->input_buffer
P_copy ==
    /\ processor.pc = "copy"
    /\ \E x \in {WindowedFrame(input_buffer, processor.buf, processor.frame,
                               hop_length, window, processor.g)} :
          /\ input_buffer' = x
          /\ processor' = [processor EXCEPT
                              !.pc = "fft",
                              !.copied = x,
                              !.log = Logged(@, processor.frame, <<"copy", "window">>)]
    /\ UNCHANGED <<profile, app>>
    /\ UNCHANGED <<hop_length, n_std_thresh, prop_decrease, clip_noise, window,
                   fft_buffer, noise_thresh, learned, op, data, output, call, learner>>

\* fftwf_execute(sg->forward_plan); the thread notes whether the scratch
\* buffer still holds the frame it copied
P_fft ==
    /\ processor.pc = "fft"
    /\ fft_buffer' = Store(Forward(input_buffer))
    /\ processor' = [processor EXCEPT
                        !.pc = "gate",
                        !.log = Logged(@, processor.frame, <<"forward">>),
                        !.clobbered = @ \/ input_buffer # processor.copied]
    /\ UNCHANGED <<profile, app>>
    /\ UNCHANGED <<hop_length, n_std_thresh, prop_decrease, clip_noise, window,
                   input_buffer, noise_thresh, learned, op, data, output, call, learner>>

\* the gating loop over sg->fft_buffer, against sg->noise_thresh
P_gate ==
    /\ processor.pc = "gate"
    /\ \E G \in {GateFrame(fft_buffer, noise_thresh, prop_decrease, clip_noise)} :
          fft_buffer' = Store([k \in Bins |-> G[k].zout])
    /\ processor' = [processor EXCEPT
                        !.pc = "inverse",
                        !.log = Logged(@, processor.frame, <<"gate">>)]
    /\ UNCHANGED <<profile, app>>
    /\ UNCHANGED <<hop_length, n_std_thresh, prop_decrease, clip_noise, window,
                   input_buffer, noise_thresh, learned, op, data, output, call, learner>>

\* fftwf_execute(sg->inverse_plan)
P_inverse ==
    /\ processor.pc = "inverse"
    /\ input_buffer' = Store(Inverse(fft_buffer))
    /\ processor' = [processor EXCEPT
                        !.pc = "add",
                        !.log = Logged(@, processor.frame, <<"inverse">>)]
    /\ UNCHANGED <<profile, app>>
    /\ UNCHANGED <<hop_length, n_std_thresh, prop_decrease, clip_noise, window,
                   fft_buffer, noise_thresh, learned, op, data, output, call, learner>>

\* apply_window on sg->input_buffer and the accumulation into output; then
\* frame++ and the loop test
P_add ==
    /\ processor.pc = "add"
    /\ \E x \in {Store(apply_window(input_buffer, window, WIN_LENGTH))} :
          /\ input_buffer' = x
          /\ output' = Store([j \in DOMAIN output |->
                 IF j \in AddedIndices(processor.frame * hop_length, BufLen(processor.buf))
                 THEN output[j] + FDiv(x[j - processor.frame * hop_length], N_FFT)
                 ELSE output[j]])
    /\ processor' = [processor EXCEPT
                        !.log = Logged(@, processor.frame, <<"window", "accumulate">>),
                        !.frame = NextFrame(@),
                        !.loops = @ + 1,
                        !.pc = LoopPc(NextFrame(processor.frame), processor.num_frames,
                                      "copy", "normalize")]
    /\ UNCHANGED <<profile, app>>
    /\ UNCHANGED <<hop_length, n_std_thresh, prop_decrease, clip_noise, window,
                   fft_buffer, noise_thresh, learned, op, data, call, learner>>

\* output[i] /= normalization; return
P_normalize ==
    /\ processor.pc = "normalize"
    /\ output' = Store([j \in DOMAIN output |-> FDiv(output[j], Normalization(hop_length))])
    /\ processor' = [processor EXCEPT !.pc = "done"]
    /\ UNCHANGED <<profile, app>>
    /\ UNCHANGED <<hop_length, n_std_thresh, prop_decrease, clip_noise, window,
                   input_buffer, fft_buffer, noise_thresh, learned, op, data, call,
                   learner>>

LearnStep == L_enter \/ L_copy \/ L_fft \/ L_stats \/ L_finish

ProcStep == P_enter \/ P_copy \/ P_fft \/ P_gate \/ P_inverse \/ P_add \/ P_normalize

NextConc == LearnStep \/ ProcStep

SpecConc == InitConc /\ [][NextConc]_vars

\* both threads are scheduled again and again; no step waits
FairConc == SpecConc /\ WF_vars(LearnStep) /\ WF_vars(ProcStep)

\* ------------------------------------------------------- noise profile file
\* sizeof(size_t) and sizeof(float), the item sizes of the two records
SIZE_T_BYTES == 8

FLOAT_BYTES == 4

\* the samples a captured profile may hold: 0.0, 3.0, -16.0 and a NaN
SampleValues == {0, 3, 0 - 16, NaN}

\* noise_data, frames: what capture_noise_profile hands to the save
Profiles == UNION {[1 .. n -> SampleValues] : n \in 0 .. MaxLen}

\* the bytes of an unsigned integer in memory, least significant first
RECURSIVE LEBytes(_, _)
LEBytes(n, k) == IF k = 0 THEN <<>> ELSE <<n % 256>> \o LEBytes(n \div 256, k - 1)

\* the unsigned integer that bytes in memory stand for
RECURSIVE LEValue(_)
LEValue(b) == IF b = <<>> THEN 0 ELSE Head(b) + 256 * LEValue(Tail(b))

\* floor(log2(a)) for a >= 1
Log2(a) == CHOOSE e \in 0 .. 23 : 2^e <= a /\ a < 2^(e + 1)

\* the four bytes of a binary32 with this sign, biased exponent and fraction
FloatWord(sign, e, m) ==
    <<m % 256, (m \div 256) % 256, (e % 2) * 128 + m \div 65536, sign * 128 + e \div 2>>

\* the same four bytes, most significant first
FloatBytes_BigEndian(x) ==
    IF IsNaN(x) THEN <<127, 192, 0, 0>>
    ELSE IF x = 0 THEN <<0, 0, 0, 0>>
    ELSE [i \in 1 .. FLOAT_BYTES |->
             FloatWord(IF x < 0 THEN 1 ELSE 0,
                       Log2(IF x < 0 THEN 0 - x ELSE x) + 127,
                       ((IF x < 0 THEN 0 - x ELSE x) - 2^Log2(IF x < 0 THEN 0 - x ELSE x))
                           * 2^(23 - Log2(IF x < 0 THEN 0 - x ELSE x)))[FLOAT_BYTES + 1 - i]]

\* the object representation of a float, as fwrite copies it out of memory
FloatBytes(x) ==
    IF IsNaN(x) THEN FloatWord(0, 255, 2^22)
    ELSE IF x = 0 THEN FloatWord(0, 0, 0)
    ELSE LET a == IF x < 0 THEN 0 - x ELSE x
             e == Log2(a)
         IN  FloatWord(IF x < 0 THEN 1 ELSE 0, e + 127, (a - 2^e) * 2^(23 - e))

\* the float that four bytes read into memory by fread stand for (a value
\* with a fraction is cut to its integer part, as everywhere in this model;
\* exponent 255 is a NaN: the samples hold no infinity)
FloatValue(b) ==
    LET sign == b[4] \div 128
        e == (b[4] % 128) * 2 + b[3] \div 128
        m == (b[3] % 128) * 65536 + b[2] * 256 + b[1]
        a == IF e < 127 THEN 0
             ELSE IF e <= 150 THEN (2^23 + m) \div 2^(150 - e)
             ELSE (2^23 + m) * 2^(e - 150)
    IN  IF e = 255 THEN NaN ELSE IF sign = 1 THEN 0 - a ELSE a

\* fwrite(&frames, sizeof(size_t), 1, f)
HeaderBytes(frames) == LEBytes(frames, SIZE_T_BYTES)

\* fwrite(noise_data, sizeof(float), n, f): the first n samples, in order
RECURSIVE SampleBytes(_, _)
SampleBytes(noise_data, n) ==
    IF n = 0 THEN <<>> ELSE SampleBytes(noise_data, n - 1) \o FloatBytes(noise_data[n])

\* where save_noise_profile may stop, and how many samples reached the file
\* (-1: not even the frame count).  "close": every fwrite reported success
\* into the stream's buffer and the flush inside fclose failed; the result
\* of fclose is not looked at
SaveOutcomes(frames) ==
    {[at |-> "open", n |-> 0 - 1], [at |-> "header", n |-> 0 - 1],
     [at |-> "close", n |-> 0 - 1], [at |-> "ok", n |-> frames]}
        \cup {[at |-> a, n |-> k] : a \in {"data", "close"}, k \in 0 .. (frames - 1)}

\* the bytes in the file after fopen(filepath, "wb") and the writes
FileBytes(noise_data, n) ==
    IF n < 0 THEN <<>> ELSE HeaderBytes(Len(noise_data)) \o SampleBytes(noise_data, n)

\* the return value of save_noise_profile
SaveReturns(at) == IF at \in {"ok", "close"} THEN "true" ELSE "false"

\* fread(frames, sizeof(size_t), 1, f) != 1
ShortHeader(bytes) == Len(bytes) < SIZE_T_BYTES

\* *frames after the first fread
FramesRead(bytes) == LEValue(SubSeq(bytes, 1, SIZE_T_BYTES))

\* the result of fread(*noise_data, sizeof(float), *frames, f): whole items
ItemsRead(bytes) ==
    IF (Len(bytes) - SIZE_T_BYTES) \div FLOAT_BYTES < FramesRead(bytes)
    THEN (Len(bytes) - SIZE_T_BYTES) \div FLOAT_BYTES
    ELSE FramesRead(bytes)

\* (*noise_data)[i - 1] after the second fread
SampleRead(bytes, i) ==
    FloatValue(SubSeq(bytes, SIZE_T_BYTES + FLOAT_BYTES * (i - 1) + 1,
                      SIZE_T_BYTES + FLOAT_BYTES * i))

\* where load_noise_profile returns, given what fopen and malloc do
LoadAt(exists, bytes, opens, allocates) ==
    IF ~exists \/ ~opens THEN "open"
    ELSE IF ShortHeader(bytes) THEN "header"
    ELSE IF ~allocates THEN "alloc"
    ELSE IF ItemsRead(bytes) # FramesRead(bytes) THEN "data"
    ELSE "ok"

\* no engine yet: spectralgate_create comes after the profile (voice.c:535)
NoEngine ==
    /\ hop_length = 0
    /\ n_std_thresh = 0
    /\ prop_decrease = 0
    /\ clip_noise = FALSE
    /\ window = Null
    /\ input_buffer = Null
    /\ fft_buffer = Null
    /\ noise_thresh = Null
    /\ learned = Null
    /\ op = "none"
    /\ data = <<>>
    /\ output = <<>>
    /\ call = NoCall
    /\ learner = Idle
    /\ processor = Idle

engine == <<hop_length, n_std_thresh, prop_decrease, clip_noise, window, input_buffer,
            fft_buffer, noise_thresh, learned, op, data, output, call, learner, processor>>

\* the first run of the program in a directory; captured is what the
\* microphone will deliver when a profile has to be captured
InitProfile ==
    /\ NoEngine
    /\ app = NoApp
    /\ \E c \in Profiles : profile = [NoProfile EXCEPT !.captured = c]

\* load_noise_profile(voice_dir, &noise_data, &noise_frames)
load_noise_profile ==
    /\ profile.pc = "start"
    /\ \E opens \in BOOLEAN, allocates \in BOOLEAN :
          \E at \in {LoadAt(profile.exists, profile.bytes, opens, allocates)} :
             profile' = [profile EXCEPT
                            !.load_at = at,
                            !.load_ret = IF at = "ok" THEN "true" ELSE "false",
                            !.frames = IF at \in {"open", "header"}
                                       THEN profile.frames
                                       ELSE FramesRead(profile.bytes),
                            !.noise_data = IF at = "ok"
                                           THEN [i \in 1 .. FramesRead(profile.bytes) |->
                                                    SampleRead(profile.bytes, i)]
                                           ELSE <<>>,
                            !.pc = IF at = "ok" THEN "ready" ELSE "capture"]
    /\ UNCHANGED <<engine, app>>

\* noise_data = capture_noise_profile(&noise_frames);
\* save_noise_profile(voice_dir, noise_data, noise_frames)
save_noise_profile ==
    /\ profile.pc = "capture"
    /\ \E o \in SaveOutcomes(Len(profile.captured)) :
          profile' = [profile EXCEPT
                         !.frames = Len(profile.captured),
                         !.noise_data = profile.captured,
                         !.save_ret = SaveReturns(o.at),
                         !.exists = IF o.at = "open" THEN profile.exists ELSE TRUE,
                         !.bytes = IF o.at = "open" THEN profile.bytes
                                   ELSE FileBytes(profile.captured, o.n),
                         !.wrote = IF o.at = "open" THEN profile.wrote
                                   ELSE profile.captured,
                         !.written = IF o.at = "open" THEN profile.written
                                     ELSE IF o.at = "ok" THEN "whole" ELSE "partial",
                         !.pc = "ready"]
    /\ UNCHANGED <<engine, app>>

\* the program ends and is started again in the same directory
RunAgain ==
    /\ profile.pc = "ready"
    /\ profile' = [profile EXCEPT !.pc = "start", !.save_ret = "none",
                                  !.load_ret = "none", !.load_at = "none",
                                  !.frames = 0, !.noise_data = <<>>]
    /\ UNCHANGED <<engine, app>>

NextProfile == load_noise_profile \/ save_noise_profile \/ RunAgain

SpecProfile == InitProfile /\ [][NextProfile]_vars

\* ------------------------------------------------------- capture callbacks
\* the samples a stream delivers, and what a malloc'ed cell held before
Delivered == {3, 16}

HeapData == 7

\* the input buffers of one callback invocation: frameCount samples
Inputs(maxCount) == UNION {[1 .. n -> Delivered] : n \in 0 .. maxCount}

\* size_t subtraction: the difference wraps instead of going negative (the
\* modulus is scaled with the model's sizes)
SizeSub(a, b) == (a - b) % (2^16)

\* the whole delivery copied, whatever room is left
FramesToCopy_All(remaining_space, frameCount) == frameCount

\* frames_to_copy = remaining_space < frameCount ? remaining_space : frameCount
FramesToCopy(remaining_space, frameCount) ==
    IF remaining_space < frameCount THEN remaining_space ELSE frameCount

\* memcpy(dst + at, input, n * sizeof(float)) into an array of `capacity`
\* floats: the cells inside the array (those past it are not part of it)
CopyIn(dst, at, input, n) ==
    [i \in DOMAIN dst |-> IF at <= i /\ i < at + n THEN input[i - at + 1] ELSE dst[i]]

\* the indices that memcpy writes
CopyWrites(at, n) == at .. (at + n - 1)

\* capture_noise_profile: NoiseState noise_state = {malloc(...), 0, max_frames}
InitNoise ==
    /\ NoEngine
    /\ profile = NoProfile
    /\ app = [pc |-> "noise",
              noise_data |-> [i \in 0 .. (NoiseFrames - 1) |-> HeapData],
              frames_count |-> 0,
              max_frames |-> NoiseFrames,
              ret |-> "none", frameCount |-> 0, before |-> 0,
              data_before |-> [i \in 0 .. (NoiseFrames - 1) |-> HeapData],
              writes |-> {}]

\* noise_callback(input, output, frameCount, ..., userData)
noise_callback ==
    /\ app.pc = "noise"
    /\ \E input \in Inputs(NoiseFrames + 1) :
       \E n \in {FramesToCopy(SizeSub(app.max_frames, app.frames_count), Len(input))} :
          app' = [app EXCEPT
                     !.noise_data = IF n > 0 THEN CopyIn(@, app.frames_count, input, n)
                                    ELSE @,
                     !.frames_count = IF n > 0 THEN @ + n ELSE @,
                     !.ret = IF (IF n > 0 THEN app.frames_count + n ELSE app.frames_count)
                                   >= app.max_frames
                             THEN "paComplete" ELSE "paContinue",
                     !.frameCount = Len(input),
                     !.before = app.frames_count,
                     !.data_before = app.noise_data,
                     !.writes = IF n > 0 THEN CopyWrites(app.frames_count, n) ELSE {}]
    /\ UNCHANGED <<engine, profile>>

NextNoise == noise_callback

SpecNoise == InitNoise /\ [][NextNoise]_vars

\* the buffer "grown" to the size it already has
NewSize_Same(max_frames) == max_frames

\* size_t new_size = state->max_frames * 2;
NewSize(max_frames) == max_frames * 2

\* realloc(ptr, n * sizeof(float)) when it succeeds: the old contents, and
\* old heap data in the cells that are new
Realloc(old, n) == [i \in 0 .. (n - 1) |-> IF i \in DOMAIN old THEN old[i] ELSE HeapData]

\* if (state->frames_count + frameCount > state->max_frames)
MustGrow(frames_count, frameCount, max_frames) == frames_count + frameCount > max_frames

\* recorded_data[0 .. frames_count), as a sequence
Recorded(recorded_data, frames_count) ==
    [i \in 1 .. frames_count |-> IF (i - 1) \in DOMAIN recorded_data
                                 THEN recorded_data[i - 1] ELSE HeapData]

\* main: RecordingState state = {malloc(...), 0, max_frames, ...}
InitRecording ==
    /\ NoEngine
    /\ profile = NoProfile
    /\ app = [pc |-> "recording",
              recorded_data |-> [i \in 0 .. (RecordFrames - 1) |-> HeapData],
              frames_count |-> 0,
              max_frames |-> RecordFrames,
              ret |-> "none", frameCount |-> 0, grew |-> FALSE,
              before |-> [recorded_data |-> <<>>, frames_count |-> 0, max_frames |-> 0],
              writes |-> {}, accepted |-> <<>>, oversized |-> FALSE]

\* recording_callback(input, output, frameCount, ..., userData): the buffer
\* part (the pitch display that follows touches none of these fields)
recording_callback ==
    /\ app.pc = "recording"
    /\ \E input \in Inputs(app.max_frames + 1), allocates \in BOOLEAN, stop \in BOOLEAN :
          /\ (MustGrow(app.frames_count, Len(input), app.max_frames) /\ allocates) =>
                NewSize(app.max_frames) <= RecordLimit
          /\ app.frames_count + Len(input) <= 2 * RecordLimit
          /\ IF MustGrow(app.frames_count, Len(input), app.max_frames) /\ ~allocates
             THEN app' = [app EXCEPT
                             !.ret = "paAbort",
                             !.frameCount = Len(input),
                             !.grew = FALSE,
                             !.before = [recorded_data |-> app.recorded_data,
                                         frames_count |-> app.frames_count,
                                         max_frames |-> app.max_frames],
                             !.writes = {}]
             ELSE \E grows \in {MustGrow(app.frames_count, Len(input), app.max_frames)} :
                  app' = [app EXCEPT
                             !.recorded_data =
                                 CopyIn(IF grows THEN Realloc(@, NewSize(app.max_frames))
                                        ELSE @,
                                        app.frames_count, input, Len(input)),
                             !.max_frames = IF grows THEN NewSize(@) ELSE @,
                             !.frames_count = @ + Len(input),
                             !.ret = IF stop THEN "paComplete" ELSE "paContinue",
                             !.frameCount = Len(input),
                             !.grew = grows,
                             !.before = [recorded_data |-> app.recorded_data,
                                         frames_count |-> app.frames_count,
                                         max_frames |-> app.max_frames],
                             !.writes = CopyWrites(app.frames_count, Len(input)),
                             !.accepted = @ \o input,
                             !.oversized = @ \/ Len(input) > app.max_frames]
    /\ UNCHANGED <<engine, profile>>

NextRecording == recording_callback

SpecRecording == InitRecording /\ [][NextRecording]_vars

\* ------------------------------------------------------------- voice.c main
\* the handles main releases at its cleanup label
Handles ==
    {"sg", "voice_dir", "full_path", "cleaned_audio", "noise_data", "recorded_data",
     "pitch_detector", "input_buffer", "pitch_output"}

\* the members of RecordingState, released only when they are non-null
StateHandles == {"recorded_data", "pitch_detector", "input_buffer", "pitch_output"}

\* the frame counts a profile file found in the directory may hold (-1: no
\* file)
StoredCounts == (0 - 1) .. NoiseFrames

\* if (noise_state.frames_count < SAMPLE_RATE * NOISE_SAMPLE_DURATION * 0.9)
Incomplete(frames_count) == frames_count * 10 < NoiseFrames * 9

\* the stream is left running
Pa_CloseStream_Skipped(stream) == stream

\* Pa_StopStream(stream); Pa_CloseStream(stream): no callback runs after it
Pa_CloseStream(stream) == "closed"

\* the stream whose callback the audio thread may run
ActiveStreams ==
    {s \in {"noise", "recording", "playback"} : app.streams[s] = "active"}

\* an engine operation is executing in main
InEngine == app.pc \in {"learning", "processing"}

\* main at its first statement: voice_dir = get_voice_dir(); every other
\* handle is declared further down and holds nothing yet
InitMain ==
    /\ NoEngine
    /\ profile = NoProfile
    /\ \E stored \in StoredCounts :
          app = [pc |-> "start",
                 h |-> [x \in Handles |-> IF x = "voice_dir" THEN "live" ELSE "uninit"],
                 streams |-> [s \in {"noise", "recording", "playback"} |-> "none"],
                 callback |-> "none",
                 stored |-> stored,
                 noise_frames |-> 0,
                 captured |-> 0,
                 frames_count |-> 0,
                 learn_length |-> 0,
                 learn_returned |-> FALSE,
                 loaded |-> FALSE,
                 ran |-> {},
                 released_uninit |-> {},
                 released_twice |-> {}]

\* Pa_Initialize(); on failure goto error, which goes to cleanup; otherwise
\* float *noise_data = NULL; size_t noise_frames = 0;
M_initialize ==
    /\ app.pc = "start"
    /\ \/ app' = [app EXCEPT !.pc = "cleanup"]
       \/ app' = [app EXCEPT !.pc = "load", !.h["noise_data"] = "null"]
    /\ UNCHANGED <<engine, profile>>

\* load_noise_profile(voice_dir, &noise_data, &noise_frames): true with the
\* stored count and samples; or false, with noise_data still NULL (fopen,
\* header, malloc) or pointing at the block it freed (short read)
M_load ==
    /\ app.pc = "load"
    /\ \/ /\ app.stored >= 0
          /\ app' = [app EXCEPT !.pc = "allocate", !.h["noise_data"] = "live",
                                !.noise_frames = app.stored, !.loaded = TRUE]
       \/ app' = [app EXCEPT !.pc = "capture"]
       \/ /\ app.stored >= 0
          /\ app' = [app EXCEPT !.pc = "capture", !.h["noise_data"] = "freed",
                                !.noise_frames = app.stored]
    /\ UNCHANGED <<engine, profile>>

\* capture_noise_profile up to Pa_StartStream: NULL when malloc,
\* Pa_OpenStream or Pa_StartStream fails (the buffer freed, the stream
\* closed), and then goto cleanup
M_capture ==
    /\ app.pc = "capture"
    /\ \/ app' = [app EXCEPT !.pc = "cleanup", !.h["noise_data"] = "null"]
       \/ app' = [app EXCEPT !.pc = "capturing", !.streams["noise"] = "active",
                             !.captured = 0]
    /\ UNCHANGED <<engine, profile>>

\* Pa_Sleep; Pa_StopStream; Pa_CloseStream; the check for enough frames
M_captured ==
    /\ app.pc = "capturing" /\ app.callback = "none"
    /\ app' = [app EXCEPT
                  !.streams["noise"] = Pa_CloseStream(@),
                  !.pc = IF Incomplete(app.captured) THEN "cleanup" ELSE "save",
                  !.h["noise_data"] = IF Incomplete(app.captured) THEN "null" ELSE "live",
                  !.noise_frames = IF Incomplete(app.captured) THEN @ ELSE app.captured]
    /\ UNCHANGED <<engine, profile>>

\* save_noise_profile(voice_dir, noise_data, noise_frames): a failure is
\* only warned about
M_save ==
    /\ app.pc = "save"
    /\ \E saved \in BOOLEAN :
          app' = [app EXCEPT !.pc = "allocate",
                             !.stored = IF saved THEN app.noise_frames ELSE @]
    /\ UNCHANGED <<engine, profile>>

\* RecordingState state = {malloc, new_aubio_pitch, new_fvec, new_fvec};
\* if one of them is null goto cleanup
M_allocate ==
    /\ app.pc = "allocate"
    /\ \E failed \in SUBSET StateHandles :
          app' = [app EXCEPT
                     !.h = [x \in Handles |->
                               IF x \in failed THEN "null"
                               ELSE IF x \in StateHandles THEN "live" ELSE app.h[x]],
                     !.frames_count = 0,
                     !.pc = IF failed = {} THEN "open" ELSE "cleanup"]
    /\ UNCHANGED <<engine, profile>>

\* Pa_OpenStream(&recording_stream, ...); Pa_StartStream(recording_stream);
\* on a failure of either goto error
M_record ==
    /\ app.pc = "open"
    /\ \/ app' = [app EXCEPT !.pc = "cleanup"]
       \/ app' = [app EXCEPT !.pc = "cleanup", !.streams["recording"] = "open"]
       \/ app' = [app EXCEPT !.pc = "recording", !.streams["recording"] = "active"]
    /\ UNCHANGED <<engine, profile>>

\* the audio thread enters the callback of a running stream
CallbackEnters ==
    /\ app.callback = "none"
    /\ \E s \in ActiveStreams : app' = [app EXCEPT !.callback = s, !.ran = @ \cup {s}]
    /\ UNCHANGED <<engine, profile>>

\* the callback returns: paContinue, or paComplete / paAbort, after which
\* the stream is no longer active
CallbackReturns ==
    /\ app.callback # "none"
    /\ \E n \in 1 .. 3, finished \in BOOLEAN :
          app' = [app EXCEPT
                     !.callback = "none",
                     !.captured = IF app.callback = "noise"
                                  THEN FramesToCopy(NoiseFrames - @, n) + @
                                  ELSE @,
                     !.frames_count = IF app.callback = "recording" /\ @ < RecordFrames
                                      THEN @ + 1 ELSE @,
                     !.streams[app.callback] =
                         IF app.callback = "noise"
                         THEN (IF FramesToCopy(NoiseFrames - app.captured, n) + app.captured
                                     >= NoiseFrames
                               THEN "done" ELSE "active")
                         ELSE (IF finished THEN "done" ELSE "active")]
    /\ UNCHANGED <<engine, profile>>

\* Enter was read; Pa_StopStream(recording_stream) waits for the callback to
\* return; Pa_CloseStream(recording_stream)
M_stop ==
    /\ app.pc = "recording" /\ app.callback = "none"
    /\ app' = [app EXCEPT !.pc = "cleaned", !.streams["recording"] = Pa_CloseStream(@)]
    /\ UNCHANGED <<engine, profile>>

\* cleaned_audio = malloc(...), or goto cleanup; sg = spectralgate_create():
\* the engine, or the process dies inside it on a failed allocation; then
\* sg->prop_decrease = 0.0; sg->n_std_thresh = 2.5;
M_create ==
    /\ app.pc = "cleaned"
    /\ \/ app' = [app EXCEPT !.pc = "cleanup", !.h["cleaned_audio"] = "null"]
       \/ app' = [app EXCEPT !.pc = "crashed", !.h["cleaned_audio"] = "live"]
       \/ app' = [app EXCEPT !.pc = "learn", !.h["cleaned_audio"] = "live",
                             !.h["sg"] = "live"]
    /\ UNCHANGED <<engine, profile>>

\* spectralgate_compute_noise_thresh(sg, noise_data, noise_frames) is called
M_learn ==
    /\ app.pc = "learn"
    /\ app' = [app EXCEPT !.pc = "learning", !.learn_length = app.noise_frames]
    /\ UNCHANGED <<engine, profile>>

\* it returns; spectralgate_process(sg, recorded_data, cleaned_audio,
\* final_frames) is called
M_process ==
    /\ app.pc = "learning"
    /\ app' = [app EXCEPT !.pc = "processing", !.learn_returned = TRUE]
    /\ UNCHANGED <<engine, profile>>

\* it returns; full_path = malloc(...); save_recording; play_audio opens and
\* starts the playback stream (or fails and returns)
M_play ==
    /\ app.pc = "processing"
    /\ \/ app' = [app EXCEPT !.pc = "cleanup", !.h["full_path"] = "live"]
       \/ app' = [app EXCEPT !.pc = "playing", !.h["full_path"] = "live",
                             !.streams["playback"] = "active"]
    /\ UNCHANGED <<engine, profile>>

\* while (Pa_IsStreamActive(playback_stream)) Pa_Sleep(100); Pa_StopStream;
\* Pa_CloseStream
M_played ==
    /\ app.pc = "playing" /\ app.callback = "none" /\ app.streams["playback"] = "done"
    /\ app' = [app EXCEPT !.pc = "cleanup", !.streams["playback"] = Pa_CloseStream(@)]
    /\ UNCHANGED <<engine, profile>>

\* cleanup: spectralgate_destroy(sg); free(voice_dir); free(full_path);
\* free(cleaned_audio); free(noise_data); and for each member of state
\* if (member) free / del_*(member); Pa_Terminate(); return 0.  A member that
\* was never initialised reads as null or as something else.
M_cleanup ==
    /\ app.pc = "cleanup"
    /\ \E zero \in SUBSET {x \in StateHandles : app.h[x] = "uninit"} :
       \E released \in {{x \in Handles : x \notin StateHandles \/
                                         (app.h[x] # "null" /\ x \notin zero)}} :
          app' = [app EXCEPT
                     !.pc = "exit",
                     !.released_uninit = {x \in released : app.h[x] = "uninit"},
                     !.released_twice = {x \in released : app.h[x] = "freed"},
                     !.h = [x \in Handles |->
                               IF x \in released /\ app.h[x] = "live" THEN "freed"
                               ELSE app.h[x]]]
    /\ UNCHANGED <<engine, profile>>

NextMain ==
    \/ M_initialize \/ M_load \/ M_capture \/ M_captured \/ M_save \/ M_allocate
    \/ M_record \/ CallbackEnters \/ CallbackReturns \/ M_stop \/ M_create \/ M_learn
    \/ M_process \/ M_play \/ M_played \/ M_cleanup

SpecMain == InitMain /\ [][NextMain]_vars

\* ---------------------------------------------------------------- claims
\* the length the caller passed to the last operation
Length == BufLen(data)

\* frameSize + (numFrames - 1) * hopSize: the samples the frames cover
Covered == N_FFT + (NumFrames(Length, hop_length) - 1) * hop_length

\* the bin is classified as noise: its magnitude is not above the threshold
IsNoise(r) == ~FGt(r.mag, r.thr)

\* w has the phase of z, or is zero
SamePhase(z, w) ==
    /\ z[1] * w[2] = z[2] * w[1]
    /\ z[1] * w[1] + z[2] * w[2] >= 0

\* C1: after processSignal on a signal of at least frameSize samples, every
\* output sample at an index >= frameSize + (numFrames-1)*hopSize is zero,
\* whatever the output buffer held before and whatever the threshold is.
C1_TailIsZero ==
    (op = "process" /\ Length >= N_FFT) =>
        \A j \in DOMAIN output : j >= Covered => output[j] = 0

\* a processed signal with an uncovered tail sample that held old data, a
\* learned threshold and a nonzero sample elsewhere in the output
C1_Witness ==
    /\ op = "process" /\ Length >= N_FFT
    /\ \E j \in DOMAIN output : j >= Covered /\ call.out_before[j] # 0 /\ output[j] = 0
    /\ \E j \in DOMAIN output : output[j] # 0
    /\ noise_thresh # ZeroBins

\* C2: during processSignal, for every length >= 0 and every frame, each
\* write to the output buffer targets an index in [0, length).
C2_WritesInsideOutput ==
    op = "process" => call.writes \subseteq 0 .. (Length - 1)

\* a frame that starts inside a buffer shorter than frameSize: its reads run
\* past the end and the bounds check stops its writes at the end
C2_Witness ==
    /\ op = "process" /\ Length < N_FFT /\ call.forwards > 0
    /\ \E i \in call.reads : i >= Length
    /\ call.writes = 0 .. (Length - 1)
    /\ \E j \in DOMAIN output : output[j] # 0

\* C3: in a bin classified as noise, with hardClip enabled, the gain is 0.0
\* for every propDecrease (1.0 and above included); so if every bin of every
\* frame is noise and hardClip is true, the output is all zero.
C3_HardClipGainIsZero ==
    (op = "process" /\ clip_noise) =>
        /\ \A r \in call.gates : IsNoise(r) => r.mask = 0
        /\ (\A r \in call.gates : IsNoise(r)) => \A j \in DOMAIN output : output[j] = 0

\* C4, as claimed: the gain is 1.0 if and only if the magnitude is strictly
\* above the threshold; otherwise, with hardClip disabled, it is exactly
\* propDecrease; it is one of 1.0, propDecrease, 0.0; the phase is unchanged.
C4_GainOneIffAbove ==
    op = "process" =>
        \A r \in call.gates :
            /\ r.mask = GAIN_ONE <=> FGt(r.mag, r.thr)
            /\ (IsNoise(r) /\ ~clip_noise) => r.mask = prop_decrease
            /\ r.mask \in {GAIN_ONE, prop_decrease, 0}
            /\ SamePhase(r.zin, r.zout)

\* C4, amended: a magnitude strictly above the threshold gives gain 1.0, and
\* a gain of 1.0 means that unless propDecrease is itself 1.0; otherwise,
\* with hardClip disabled, the gain is exactly propDecrease; the gain is one
\* of 1.0, propDecrease, 0.0; the gated bin keeps the phase of the bin.
C4_GainByThreshold ==
    op = "process" =>
        \A r \in call.gates :
            /\ FGt(r.mag, r.thr) => r.mask = GAIN_ONE
            /\ (r.mask = GAIN_ONE /\ prop_decrease # GAIN_ONE) => FGt(r.mag, r.thr)
            /\ (IsNoise(r) /\ ~clip_noise) => r.mask = prop_decrease
            /\ r.mask \in {GAIN_ONE, prop_decrease, 0}
            /\ SamePhase(r.zin, r.zout)

\* soft gating at propDecrease 0.5: one complex bin above its threshold kept
\* whole, another whose magnitude equals its positive threshold halved
C4_Witness ==
    /\ op = "process" /\ ~clip_noise /\ prop_decrease = 1
    /\ \E r \in call.gates :
          FGt(r.mag, r.thr) /\ r.mask = GAIN_ONE /\ r.zin[2] # 0 /\ r.zout = r.zin
    /\ \E r \in call.gates :
          /\ r.mag = r.thr /\ r.mag > 0 /\ r.mask = prop_decrease
          /\ r.zin[2] # 0 /\ r.zout[2] * 2 = r.zin[2]

\* C5: learnNoiseProfile called with noiseLength < frameSize reports an error
\* to the caller and leaves the stored threshold unchanged.
C5_ShortNoiseIsRejected ==
    (op = "learn" /\ Length < N_FFT) =>
        call.reported_error /\ noise_thresh = call.prev_thresh

\* C6: for every noiseLength with 0 <= noiseLength < frameSize,
\* learnNoiseProfile runs no forward transform, reads no noise sample and
\* leaves every entry of the threshold equal to zero.
C6_ShortNoiseIsZeroFrames ==
    (op = "learn" /\ Length < N_FFT) =>
        /\ call.forwards = 0
        /\ call.reads = {}
        /\ \A k \in Bins : noise_thresh[k] = 0

\* C7: no division by zero: every divisor an engine operation divides by
\* (the frame count in learnNoiseProfile, for every noiseLength >= 0, and the
\* normalization in processSignal) is strictly positive.
C7_DivisorsArePositive ==
    op \in {"learn", "process"} => \A d \in call.divisors : d > 0

\* C8: processSignal on an all-zero input of at least frameSize samples
\* yields an all-zero output, for every threshold, hardClip and propDecrease.
C8_ZeroSignalGivesZero ==
    (op = "process" /\ Length >= N_FFT /\ \A i \in DOMAIN data : data[i] = 0) =>
        \A j \in DOMAIN output : output[j] = 0

\* silence processed into a buffer of old data, under a positive threshold,
\* soft gating and a propDecrease above 1.0
C8_Witness ==
    /\ op = "process" /\ Length >= N_FFT /\ call.forwards >= 1
    /\ \A i \in DOMAIN data : data[i] = 0
    /\ \E k \in Bins : FGt(noise_thresh[k], 0)
    /\ \E j \in DOMAIN output : call.out_before[j] # 0
    /\ ~clip_noise /\ prop_decrease = 3

\* scratch buffers as a newly created engine may hold them
FreshScratch == Store([i \in Slots |-> 0])

FreshBins == Store([k \in Bins |-> <<0, 0>>])

\* C9: learnNoiseProfile overwrites the whole threshold with a value that
\* depends only on the noise buffer and the configuration: whatever was
\* learned or processed before, the threshold is the one a fresh engine
\* learns from the same buffer (for every call whose frames lie inside the
\* buffer: the precondition noiseLength >= frameSize, or no frame at all).
C9_LearningIgnoresHistory ==
    (op = "learn" /\ ~ReadsPastEnd(Length, hop_length)) =>
        noise_thresh =
            spectralgate_compute_noise_thresh(data, FreshScratch, FreshBins, ZeroBins,
                hop_length, n_std_thresh, window, 0).thresh

\* a profile learned from two frames over an engine that held another,
\* nonzero profile
C9_Witness ==
    /\ op = "learn" /\ call.forwards >= 2
    /\ call.prev_thresh # ZeroBins
    /\ noise_thresh # ZeroBins
    /\ noise_thresh # call.prev_thresh

\* C10: processSignal never modifies the threshold, the window or the
\* configuration: the threshold is always the one the most recent
\* learnNoiseProfile stored, or all zero if there was none since create.
C10_ProcessKeepsEngine ==
    /\ noise_thresh = learned
    /\ op = "process" =>
          /\ noise_thresh = call.prev_thresh
          /\ window = call.prev_window
          /\ Config = call.prev_config

\* a signal gated frame by frame under a learned, nonzero threshold
C10_Witness ==
    /\ op = "process" /\ call.forwards >= 2
    /\ learned # ZeroBins
    /\ \E r \in call.gates : r.mask # GAIN_ONE
    /\ \E r \in call.gates : r.mag # r.thr /\ r.mag > 0

\* the output of the same call with gating disabled: every bin kept whole
Ungated ==
    spectralgate_process(data, call.out_before, FreshScratch, FreshBins, hop_length,
        call.prev_thresh, GAIN_ONE, FALSE, window, call.garbage).out

\* C11: on an engine whose threshold was never learned (all zero since
\* create), processSignal gives every bin of non-zero magnitude gain 1.0, so
\* the output equals the output with gating disabled, whatever hardClip and
\* propDecrease are.
C11_UnlearnedGateIsOpen ==
    (op = "process" /\ call.never_learned) =>
        /\ \A k \in Bins : call.prev_thresh[k] = 0
        /\ \A r \in call.gates : r.mag # 0 => r.mask = GAIN_ONE /\ r.zout = r.zin
        /\ output = Ungated

\* a signal processed with hard clip and propDecrease 0.0 on an engine that
\* never learned: a complex bin kept whole, an empty bin classified as noise,
\* a nonzero output
C11_Witness ==
    /\ op = "process" /\ call.never_learned
    /\ clip_noise /\ prop_decrease = 0
    /\ \E r \in call.gates : r.mag # 0 /\ r.zin[2] # 0
    /\ \E r \in call.gates : r.mag = 0 /\ r.mask = 0
    /\ \E j \in DOMAIN output : output[j] # 0

\* C12: once create has returned, the engine's configuration (frameSize,
\* hopSize, windowSize, stdThreshold, propDecrease, hardClip) is never
\* changed again, by the engine or by its caller: no step of the program
\* changes a configuration field.
C12_ConfigNeverChanges == [][Config' = Config]_vars

\* C13: when an allocation fails inside create, create hands a null engine
\* to the caller without writing through the failed allocation and without
\* returning an engine that has null buffers; when an allocation fails inside
\* learnNoiseProfile the call fails (it reports an error) and the engine can
\* still be destroyed (nothing was written through the null pointer).
C13_AllocationFailureIsReported ==
    /\ call.alloc_failed \in CreateAllocs =>
          /\ call.returned_null
          /\ ~call.null_deref
          /\ ~(op = "create" /\ input_buffer = Null)
    /\ call.alloc_failed \in LearnAllocs =>
          /\ call.reported_error
          /\ ~call.null_deref

\* the gated bins of frame f of the last processSignal call
FrameBins(f) ==
    Store([k \in Bins |-> (CHOOSE r \in call.gates : r.frame = f /\ r.bin = k).zout])

\* the windowed inverse transform of frame f
FrameSamples(f) == Store(apply_window(Inverse(FrameBins(f)), window, WIN_LENGTH))

\* what frame f adds to output[j]: its sample divided by frameSize
Contribution(f, j) ==
    IF (j - f * hop_length) \in Slots
    THEN FDiv(FrameSamples(f)[j - f * hop_length], N_FFT)
    ELSE 0

RECURSIVE SumContributions(_, _)
\* the sum of what the first n frames add to output[j]
SumContributions(j, n) ==
    IF n <= 0 THEN 0 ELSE SumContributions(j, n - 1) + Contribution(n - 1, j)

\* C14: every output sample is the sum of the windowed inverse-transform
\* samples of the frames covering it, each divided by frameSize before it
\* was added, and that sum divided exactly once, after the last
\* accumulation, by (frameSize/hopSize)/2; these are the only divisors.
C14_NormalizedOverlapAdd ==
    op = "process" =>
        /\ \A j \in DOMAIN output :
              output[j] = FDiv(SumContributions(j, NumFrames(Length, hop_length)),
                               (N_FFT \div hop_length) \div 2)
        /\ call.divisors \subseteq {N_FFT, (N_FFT \div hop_length) \div 2}

\* overlap factor 4 (normalization 2): an output sample built from two
\* overlapping frames that both contribute
C14_Witness ==
    /\ op = "process" /\ hop_length = 1 /\ call.forwards >= 2
    /\ \E j \in DOMAIN output :
          /\ Contribution(0, j) # 0
          /\ Contribution(1, j) # 0
          /\ output[j] # 0
          /\ output[j] * 2 <= Contribution(0, j) + Contribution(1, j)

\* C18: every frame processed by learnNoiseProfile or processSignal lies
\* inside the caller's buffer, for every length >= 0 (lengths below frameSize
\* included): no input sample at an index < 0 or >= length is ever read.
C18_FramesInsideBuffer ==
    op \in {"learn", "process"} => \A i \in call.reads : 0 <= i /\ i < Length

\* max(0, 1 + floor((len - frameSize) / hopSize)), the floor toward minus
\* infinity
FloorFrames(len, hop) ==
    IF 1 + ((len - N_FFT) \div hop) > 0 THEN 1 + ((len - N_FFT) \div hop) ELSE 0

\* C19: the number of frames processSignal processes is
\* max(0, 1 + floor((length - frameSize) / hopSize)), floor toward minus
\* infinity, for every length >= 0; a signal shorter than frameSize is
\* processed as zero frames and gives an all-zero output.
C19_FrameCountIsFloor ==
    op = "process" =>
        /\ call.forwards = FloorFrames(Length, hop_length)
        /\ Length < N_FFT =>
              /\ call.forwards = 0
              /\ \A j \in DOMAIN output : output[j] = 0

\* the frames of the last call, as the code counts them
FramesRun == 0 .. (NumFrames(Length, hop_length) - 1)

\* the frames whose sample was added to output[j]
AddedTo(j) == {f \in FramesRun : <<f, j>> \in call.adds}

\* C20: for every output index j, the frames whose reconstructed sample is
\* added to output[j] are exactly the frames f in [0, numFrames) with
\* f*hopSize <= j < f*hopSize + frameSize, each added exactly once; so every
\* index j with frameSize - hopSize <= j < numFrames*hopSize receives exactly
\* frameSize/hopSize contributions.
C20_ContributionsPerIndex ==
    op = "process" =>
        /\ call.adds = {p \in FramesRun \X DOMAIN output :
                           p[1] * hop_length <= p[2] /\ p[2] < p[1] * hop_length + N_FFT}
        /\ call.nadds = Cardinality(call.adds)
        /\ \A j \in DOMAIN output :
              (N_FFT - hop_length <= j /\ j < NumFrames(Length, hop_length) * hop_length)
                  => Cardinality(AddedTo(j)) = N_FFT \div hop_length

\* two overlapping frames of a signal: an index in the fully covered range
\* that took frameSize/hopSize nonzero-weighted additions, and an index
\* outside it that took fewer
C20_Witness ==
    /\ op = "process" /\ call.forwards >= 2
    /\ \E j \in DOMAIN output :
          /\ N_FFT - hop_length <= j /\ j < NumFrames(Length, hop_length) * hop_length
          /\ Cardinality(AddedTo(j)) = N_FFT \div hop_length
          /\ output[j] # 0
    /\ \E j \in DOMAIN output : Cardinality(AddedTo(j)) < N_FFT \div hop_length

\* both threads have returned
AllDone == learner.pc = "done" /\ processor.pc = "done"

\* the threshold the learner's call stores when it runs alone
LearnedAlone ==
    spectralgate_compute_noise_thresh(learner.buf, FreshScratch, FreshBins, ZeroBins,
        hop_length, n_std_thresh, window, learner.g).thresh

\* the outputs of the two serial orders: process before learn (the zero
\* threshold of create) and learn before process
SerialOutputs ==
    {spectralgate_process(processor.buf, Prefill(BufLen(processor.buf)), FreshScratch,
         FreshBins, hop_length, thr, prop_decrease, clip_noise, window, processor.g).out :
        thr \in {ZeroBins, LearnedAlone}}

\* C15: learnNoiseProfile and processSignal do no internal locking: while
\* either is running on an engine, every step of the other on the same
\* engine is free to run (so the scratch buffers and the threshold can be
\* overwritten between any two steps of an operation).
C15_NoLocking ==
    /\ learner.pc # "done" => ENABLED LearnStep
    /\ processor.pc # "done" => ENABLED ProcStep

\* an interleaving in which the learner overwrote the scratch buffer between
\* the processor's frame copy and its transform, and the processor's output
\* is the output of neither serial order
C15_Witness ==
    /\ AllDone
    /\ processor.clobbered
    /\ output \notin SerialOutputs

\* the number of iterations of a frame loop of num_frames frames
Iterations(num_frames) == IF num_frames > 0 THEN num_frames ELSE 0

\* C17: for every finite input length >= 0, learnNoiseProfile and
\* processSignal terminate: each runs its frame loop exactly numFrames times
\* (zero times if numFrames <= 0) and then returns, without waiting.
C17_BothTerminate ==
    <>(/\ AllDone
       /\ learner.loops = Iterations(NumFrames(BufLen(learner.buf), hop_length))
       /\ processor.loops = Iterations(NumFrames(BufLen(processor.buf), hop_length)))

\* both calls have returned: the learner after no frame of a short, nonempty
\* noise buffer (numFrames <= 0), the processor after two frames
C17_Witness ==
    /\ AllDone
    /\ BufLen(learner.buf) > 0 /\ NumFrames(BufLen(learner.buf), hop_length) < 0
    /\ learner.loops = 0
    /\ processor.loops = 2 /\ NumFrames(BufLen(processor.buf), hop_length) = 2

\* the file holds every byte of the last save that opened it
WholeFile == profile.exists /\ profile.written = "whole"

\* the last call was a load that opened the file and got its memory
LoadedIt == profile.save_ret = "none" /\ profile.load_at \in {"header", "data", "ok"}

\* C16: loading a profile file that save_noise_profile wrote successfully
\* returns success with the frame count and the samples that were saved, in
\* their order: a load that found the whole file and its memory succeeds,
\* and a load that succeeds returns exactly what the save was given
C16_LoadAfterSave ==
    /\ (WholeFile /\ LoadedIt) => profile.load_ret = "true"
    /\ profile.load_ret = "true" =>
          /\ WholeFile
          /\ profile.frames = Len(profile.wrote)
          /\ profile.noise_data = profile.wrote

\* a profile of MaxLen samples with 3.0, -16.0, NaN and 0.0 in it was saved
\* in one run and loaded in the next
C16_Witness ==
    /\ profile.load_ret = "true"
    /\ profile.frames = MaxLen
    /\ profile.noise_data[1] = 3
    /\ profile.noise_data[2] = 0 - 16
    /\ IsNaN(profile.noise_data[3])
    /\ profile.noise_data[4] = 0

\* the statements of n frames in increasing frame order, each frame doing
\* the steps of body in their order
RECURSIVE FramesInOrder(_, _)
FramesInOrder(body, n) ==
    IF n <= 0 THEN <<>> ELSE Logged(FramesInOrder(body, n - 1), n - 1, body)

\* the transforms among the logged statements, in order
Transforms(log) == SelectSeq(log, LAMBDA e : e[1] \in {"forward", "inverse"})

\* one frame of learnNoiseProfile and one frame of processSignal
LearnBody == <<"copy", "window", "forward", "stats">>

ProcessBody == <<"copy", "window", "forward", "gate", "inverse", "window", "accumulate">>

IsPrefix(s, t) == Len(s) <= Len(t) /\ s = SubSeq(t, 1, Len(s))

\* C21: learnNoiseProfile performs exactly numFrames forward transforms and
\* no inverse transform; processSignal performs, for each frame in
\* increasing frame order, copy-and-zero-pad, analysis window, forward
\* transform, gating, inverse transform, synthesis window, accumulate, in
\* that order: numFrames forward and numFrames inverse transforms that
\* strictly alternate.  At every moment each thread has executed a prefix of
\* that sequence, and the whole of it when its call has returned.
C21_TransformOrder ==
    /\ IsPrefix(learner.log,
                FramesInOrder(LearnBody, NumFrames(BufLen(learner.buf), hop_length)))
    /\ IsPrefix(processor.log,
                FramesInOrder(ProcessBody, NumFrames(BufLen(processor.buf), hop_length)))
    /\ \A i \in 1 .. Len(Transforms(processor.log)) :
          Transforms(processor.log)[i][1] = (IF i % 2 = 1 THEN "forward" ELSE "inverse")
    /\ \A i \in 1 .. Len(learner.log) : learner.log[i][1] # "inverse"
    /\ learner.pc = "done" =>
          Len(Transforms(learner.log)) =
              Iterations(NumFrames(BufLen(learner.buf), hop_length))
    /\ processor.pc = "done" =>
          Len(Transforms(processor.log)) =
              2 * Iterations(NumFrames(BufLen(processor.buf), hop_length))

\* both calls have returned, the learning after one frame and the processing
\* after two, their steps interleaved
C21_Witness ==
    /\ AllDone
    /\ Len(Transforms(learner.log)) = 1
    /\ Len(Transforms(processor.log)) = 4
    /\ processor.clobbered

\* the output of the same call on an engine with the same threshold and
\* configuration whose scratch buffers hold zeros, into a zeroed output buffer
OnCleanEngine ==
    spectralgate_process(data, ZeroOutput(call.out_before), FreshScratch, FreshBins,
        hop_length, call.prev_thresh, prop_decrease, clip_noise, window, call.garbage).out

\* C22: the output of processSignal is a function of the input samples, the
\* threshold and the configuration only: whatever the scratch buffers held
\* when the call began (after create, after earlier learnNoiseProfile or
\* processSignal calls) the output is the one an engine with clean scratch
\* buffers gives, and the frame a transform is given is the same whatever
\* the scratch buffer holds from the frame before.
C22_ScratchDoesNotLeak ==
    /\ op = "process" => output = OnCleanEngine
    /\ (op \in {"learn", "process"} /\ input_buffer # Null) =>
          \A f \in FramesRun : \A g \in Garbage :
              LoadFrame(input_buffer, data, f * hop_length, g) =
                  LoadFrame(FreshScratch, data, f * hop_length, g)

\* a signal of two frames or more processed on an engine whose scratch
\* buffers held other data, with a nonzero result
C22_Witness ==
    /\ op = "process" /\ call.dirty
    /\ call.forwards >= 2
    /\ \E j \in DOMAIN output : output[j] # 0
    /\ Dirty(input_buffer, fft_buffer)

\* C27: after any sequence of noise_callback invocations with any frame
\* counts, frames_count <= max_frames and no sample is written past
\* max_frames; the callback returns paComplete exactly when frames_count has
\* reached max_frames, and once full every later invocation copies nothing
\* and leaves the captured samples unchanged.
C27_NoiseCaptureStaysInside ==
    /\ app.frames_count <= app.max_frames
    /\ \A i \in app.writes : 0 <= i /\ i < app.max_frames
    /\ \A i \in 0 .. (app.before - 1) : app.noise_data[i] = app.data_before[i]
    /\ app.ret # "none" =>
          /\ (app.ret = "paComplete") <=> (app.frames_count = app.max_frames)
          /\ app.before = app.max_frames =>
                app.writes = {} /\ app.noise_data = app.data_before

\* the buffer is full and a later invocation delivered samples; an earlier
\* one had been cut to the room that was left
C27_Witness ==
    /\ app.ret = "paComplete"
    /\ app.before = app.max_frames
    /\ app.frameCount > 0
    /\ app.noise_data[0] = 3 /\ app.noise_data[app.max_frames - 1] = 16

\* the floats allocated for recorded_data
Capacity == Cardinality(DOMAIN app.recorded_data)

\* C26: after any sequence of recording_callback invocations, each
\* delivering at most max_frames samples, frames_count <= max_frames holds,
\* no sample is written past the capacity of recorded_data, and
\* recorded_data[0..frames_count) is the concatenation of all delivered
\* buffers in delivery order; when the buffer growth fails the callback
\* returns paAbort and leaves recorded_data, frames_count and max_frames
\* unchanged.
C26_RecordingStaysInside ==
    ~app.oversized =>
        /\ app.frames_count <= app.max_frames
        /\ app.max_frames = Capacity
        /\ \A i \in app.writes : 0 <= i /\ i < Capacity
        /\ Recorded(app.recorded_data, app.frames_count) = app.accepted
        /\ app.ret = "paAbort" =>
              /\ app.recorded_data = app.before.recorded_data
              /\ app.frames_count = app.before.frames_count
              /\ app.max_frames = app.before.max_frames
        /\ (app.ret \in {"paContinue", "paComplete"} /\ app.frameCount > 0) =>
              app.writes # {} /\ app.frames_count = app.before.frames_count + app.frameCount

\* the buffer was grown and filled by deliveries that were all kept, and
\* then a growth failed
C26_Witness ==
    /\ ~app.oversized
    /\ app.ret = "paAbort"
    /\ app.max_frames = 2 * RecordFrames
    /\ app.frames_count = app.max_frames
    /\ app.accepted[1] = 3 /\ app.accepted[app.frames_count] = 16

\* C23: in voice.c main every call of spectralgate_process starts only
\* after spectralgate_compute_noise_thresh on that engine has returned, and
\* both run only after the recording stream has been stopped and closed, so
\* no audio callback runs concurrently with an engine operation.
C23_EngineRunsAlone ==
    /\ InEngine =>
          /\ app.callback = "none"
          /\ ActiveStreams = {}
          /\ app.streams["recording"] = "closed"
          /\ app.streams["noise"] \in {"none", "closed"}
    /\ app.pc = "processing" => app.learn_returned

\* the engine is processing a recording after a noise capture: the callbacks
\* of both streams have run and samples were recorded
C23_Witness ==
    /\ app.pc = "processing"
    /\ app.ran = {"noise", "recording"}
    /\ app.frames_count > 0
    /\ ~app.loaded

\* C24: in voice.c main every call of spectralgate_compute_noise_thresh
\* satisfies its precondition noiseLength >= frameSize, both when the noise
\* profile was freshly captured and when it was loaded from an existing
\* profile file of any stored frame count.
C24_NoiseLongEnough == app.pc = "learning" => app.learn_length >= N_FFT

\* C25: on every path of main that reaches the cleanup label, each handle
\* passed to spectralgate_destroy, free or the del_* functions was
\* initialized earlier on that path, and no handle is released more than
\* once.
C25_CleanupReleasesOwned ==
    app.pc = "exit" => app.released_uninit = {} /\ app.released_twice = {}

====
